---- MODULE Spec2Model ----
(***************************************************************************)
(* Model of the SDC AWS processing lambda:                                 *)
(*   lambda_function/src/file_processor/file_processor.py                  *)
(*     handle_event, FileProcessor._process_file, _calibrate_file,         *)
(*     _track_file_metatracker, build_status, fetch_data.                  *)
(*   lambda_function/src/lambda.py                                         *)
(*     handler, environment_setup.                                         *)
(* Spec follows one invocation of handle_event step by step.  SpecTracker  *)
(* follows direct calls of the two tenacity-wrapped functions, attempt by  *)
(* attempt, against the shared store; SpecProcessor one FileProcessor      *)
(* built by a caller of its own (any environment, with or without          *)
(* dry_run); SpecLambda one invocation of handler of lambda.py.  The       *)
(* lineage store (metatracker), object storage, the calibration package    *)
(* and the Lambda client are the environment: their outcomes are chosen    *)
(* nondeterministically.                                                   *)
(***************************************************************************)
EXTENDS Integers, Sequences, FiniteSets, TLC

\* Longest list of storage records carried by one event.
MaxRecords == 3
\* Largest number of files one calibration call produces.
MaxOutputs == 2

VARIABLES
    env,                  \* os.environ and static configuration of the process
    event,                \* the inbound event of the current invocation
    pc,                   \* position inside handle_event
    records,              \* handle_event: records
    idx,                  \* handle_event: position of the for loop over records
    exc,                  \* exception travelling up to handle_event (<<>> = none)
    response,             \* value returned by handle_event (<<>> = not yet)
    rpc,                  \* position inside FileProcessor._process_file
    self,                 \* FileProcessor instance fields
    file_path,            \* _process_file: file_path
    calibrated_filenames, \* _process_file: calibrated_filenames
    science_file_id,      \* _process_file: science_file_id
    science_product_id,   \* _process_file: science_product_id
    k,                    \* _process_file: position of the for loop over outputs
    store,                \* the shared lineage store (files, products, statuses)
    dispatched,           \* asynchronous re-invocations sent by fetch_data
    calls,                \* history: FileProcessor constructions of this invocation
    runlog,               \* history: collaborator calls of the current run
    raised,               \* history: where exceptions were raised in this invocation
    requeues,             \* history: number of fetch_data calls of this invocation
    retry,                \* the call a tenacity @retry wrapper is carrying out
    other,                \* the local state of a second worker instance
    selections            \* history: what each fetch_data call read and sent

vars == <<env, event, pc, records, idx, exc, response, rpc, self, file_path,
          calibrated_filenames, science_file_id, science_product_id, k, store,
          dispatched, calls, runlog, raised, requeues, retry, other,
          selections>>

hvars == <<env, event, records, idx, response>>
rvars == <<self, file_path, calibrated_filenames, science_file_id,
           science_product_id, k>>
xvars == <<retry, other, selections>>

----------------------------------------------------------------------------
(* Values *)

\* Python None / an absent optional value, and a present one.
None == <<>>
Some(x) == <<x>>

Instrument == "eea"
SourceBucket == "raw-bucket"

\* A science file name: level, the upload it stems from, and its rank among
\* the outputs of one calibration (0 for an upload).
FileName(level, src, n) == [instrument |-> Instrument, level |-> level, src |-> src, n |-> n]

\* A storage key: prefix/filename.
S3Key(prefix, name) == [prefix |-> prefix, name |-> name]

UploadKey(i) == S3Key("unprocessed", FileName("l0", i, 0))

\* One storage-event notification record.
S3Record(bucket, key) == [s3 |-> [bucket |-> [name |-> bucket], object |-> [key |-> key]]]

\* The record lists an event may carry: the first n uploads, n = 0..MaxRecords.
RecordList(n) == [i \in 1..n |-> S3Record(SourceBucket, UploadKey(i))]
RecordLists == {RecordList(n) : n \in 0..MaxRecords}

\* An SNS message body: a JSON text.  json |-> FALSE is a text json.loads rejects.
Message(json, hasRecords, recs) == [json |-> json, hasRecords |-> hasRecords, Records |-> recs]
EmptyObjectMessage == Message(TRUE, FALSE, <<>>)

\* Entries of the outer Records list.
SnsEntry(msg) == [kind |-> "Sns", hasMessage |-> TRUE, Message |-> msg, s3 |-> <<>>]
SnsNoMessageEntry == [kind |-> "Sns", hasMessage |-> FALSE, Message |-> EmptyObjectMessage, s3 |-> <<>>]
DirectEntry(rec) == [kind |-> "s3", hasMessage |-> FALSE, Message |-> EmptyObjectMessage, s3 |-> Some(rec)]

\* The inbound event.
Event(hasRecords, outer) == [hasRecords |-> hasRecords, Records |-> outer]
WrappedEvent(recs) == Event(TRUE, <<SnsEntry(Message(TRUE, TRUE, recs))>>)
DirectEvent(recs) == Event(TRUE, [i \in 1..Len(recs) |-> DirectEntry(recs[i])])

Events ==
    {WrappedEvent(recs) : recs \in RecordLists}
    \cup {DirectEvent(recs) : recs \in RecordLists}
    \cup {Event(FALSE, <<>>),
          Event(TRUE, <<SnsNoMessageEntry>>),
          Event(TRUE, <<SnsEntry(Message(TRUE, FALSE, <<>>))>>),
          Event(TRUE, <<SnsEntry(Message(FALSE, FALSE, <<>>))>>)}

----------------------------------------------------------------------------
(* Environment of the process *)

\* os.environ (a variable is set or not) and the instrument configuration.
Environments ==
    [RDS_SECRET_ARN : BOOLEAN,
     AWS_LAMBDA_FUNCTION_NAME : BOOLEAN,
     instrumentConfigured : BOOLEAN,
     USE_INSTRUMENT_TEST_DATA : {FALSE}]

\* The environments of the test/diagnostic mode: USE_INSTRUMENT_TEST_DATA may
\* be "True" (line 260).
TestDataEnvironments ==
    [RDS_SECRET_ARN : BOOLEAN,
     AWS_LAMBDA_FUNCTION_NAME : BOOLEAN,
     instrumentConfigured : {TRUE},
     USE_INSTRUMENT_TEST_DATA : BOOLEAN]

\* os.getenv("LAMBDA_ENVIRONMENT", "DEVELOPMENT"): the variable is not set.
LambdaEnvironment == "DEVELOPMENT"

\* sdc_aws_utils.config.get_instrument_bucket(instrument, environment)
get_instrument_bucket(instrument, environment) ==
    IF environment = "PRODUCTION" THEN "hermes-eea" ELSE "dev-hermes-eea"

\* sdc_aws_utils.aws.parse_file_key: the file name at the end of the key.
parse_file_key(file_key) == file_key.name

\* sdc_aws_utils.aws.create_s3_file_key: the key a produced file is stored at.
create_s3_file_key(filename) == S3Key(filename.level, filename)

\* The filename parser create_s3_file_key is given (lines 209-211) accepts a
\* name that names an instrument and raises ValueError on any other text.
IsScienceFilename(filename) == filename.instrument # ""

\* The module whose FileProcessor class carries a run out.
FileProcessorModule == "file_processor.file_processor"

\* A local path: directory and file name.
Path(dir, name) == [dir |-> dir, name |-> name]

----------------------------------------------------------------------------
(* Status records *)

\* class Status(Enum)
SUCCESS == "success"
PENDING == "pending"
FAILED == "failed"

\* FileProcessor.build_status: origin_file_ids is kept only when it is given.
build_status(status, origin_file_ids) ==
    [processing_status |-> status, origin_file_ids |-> origin_file_ids]

NoStatus == [processing_status |-> "", origin_file_ids |-> None]

----------------------------------------------------------------------------
(* The lineage store *)

EmptyStore == [files |-> {}, products |-> {}, statuses |-> <<>>]

FileRows(st, s3_key, s3_bucket) ==
    {f \in st.files : f.s3_key = s3_key /\ f.s3_bucket = s3_bucket}

ProductRows(st, name) ==
    {p \in st.products : p.instrument = name.instrument /\ p.level = name.level}

\* Mutant of MetaTrackerTrack: the new status replaces the recorded ones.
MetaTrackerTrack_KeepsLatestOnly(st, path, s3_key, s3_bucket, status) ==
    LET oldF == FileRows(st, s3_key, s3_bucket)
        oldP == ProductRows(st, path.name)
        fid == IF oldF # {} THEN (CHOOSE f \in oldF : TRUE).science_file_id
               ELSE Cardinality(st.files) + 1
        pid == IF oldP # {} THEN (CHOOSE p \in oldP : TRUE).science_product_id
               ELSE Cardinality(st.products) + 1
    IN [ids |-> <<fid, pid>>,
        store |->
          [files |-> st.files \cup
                       {[science_file_id |-> fid, s3_key |-> s3_key,
                         s3_bucket |-> s3_bucket, science_product_id |-> pid]},
           products |-> st.products \cup
                       {[science_product_id |-> pid,
                         instrument |-> path.name.instrument,
                         level |-> path.name.level]},
           statuses |-> Append(<<>>,
                       [science_file_id |-> fid,
                        processing_status |-> status.processing_status,
                        origin_file_ids |-> status.origin_file_ids])]]

\* meta_tracker.track(file_path, s3_key, s3_bucket, status=status): the store
\* assigns an identifier to a file and to a product on first insertion, appends
\* the status, and answers (science_file_id, science_product_id).
MetaTrackerTrack(st, path, s3_key, s3_bucket, status) ==
    LET oldF == FileRows(st, s3_key, s3_bucket)
        oldP == ProductRows(st, path.name)
        fid == IF oldF # {} THEN (CHOOSE f \in oldF : TRUE).science_file_id
               ELSE Cardinality(st.files) + 1
        pid == IF oldP # {} THEN (CHOOSE p \in oldP : TRUE).science_product_id
               ELSE Cardinality(st.products) + 1
    IN [ids |-> <<fid, pid>>,
        store |->
          [files |-> st.files \cup
                       {[science_file_id |-> fid, s3_key |-> s3_key,
                         s3_bucket |-> s3_bucket, science_product_id |-> pid]},
           products |-> st.products \cup
                       {[science_product_id |-> pid,
                         instrument |-> path.name.instrument,
                         level |-> path.name.level]},
           statuses |-> Append(st.statuses,
                       [science_file_id |-> fid,
                        processing_status |-> status.processing_status,
                        origin_file_ids |-> status.origin_file_ids])]]

\* What the environment does to one track call that reaches the try block.
TrackOutcomes == {"tracked", "OperationalError", "FileNotFoundError"}

\* The value a track call that wrote nothing hands back.
TrackFailure(e) == None

\* FileProcessor._track_file_metatracker: without RDS_SECRET_ARN the body is
\* skipped; every exception of the try block is logged and None is returned.
track_file_metatracker(e, st, outcome, path, s3_key, s3_bucket, status) ==
    IF ~e.RDS_SECRET_ARN
    THEN [result |-> None, store |-> st, access |-> FALSE, error |-> None]
    ELSE IF outcome = "FileNotFoundError"
    THEN [result |-> TrackFailure(outcome), store |-> st, access |-> FALSE,
          error |-> Some(outcome)]
    ELSE IF outcome = "OperationalError"
    THEN [result |-> TrackFailure(outcome), store |-> st, access |-> TRUE,
          error |-> Some(outcome)]
    ELSE LET t == MetaTrackerTrack(st, path, s3_key, s3_bucket, status)
         IN [result |-> t.ids, store |-> t.store, access |-> TRUE, error |-> None]

\* Python tuple unpacking "a, b = value" succeeds only on a value of 2 items.
CanUnpack(value, n) == Len(value) = n

----------------------------------------------------------------------------
(* History records *)

Target(bucket, key) == [bucket |-> bucket, key |-> key]

LogEntry(op, target, status, outcome, access) ==
    [op |-> op, target |-> target, status |-> status, outcome |-> outcome,
     access |-> access]

Raised(site, error) == site

\* One FileProcessor construction and how it ended.
Call(bucket, key, result) == [bucket |-> bucket, key |-> key, result |-> result]

Ended(cs, result) == [cs EXCEPT ![Len(cs)].result = result]

\* The local state of a worker instance that is not the one being followed:
\* worker instances share no memory, only the lineage store.
Parked(p, i, e, r, s, fp, names, fid, pid, j, cs, log, sites) ==
    [pc |-> p, idx |-> i, exc |-> e, rpc |-> r, self |-> s, file_path |-> fp,
     calibrated_filenames |-> names, science_file_id |-> fid,
     science_product_id |-> pid, k |-> j, calls |-> cs, runlog |-> log,
     raised |-> sites]

----------------------------------------------------------------------------
(* tenacity @retry *)

\* stop_after_attempt(10): lines 339 and 510.
StopAfterAttempt == 10

\* retry_if_exception_type(psycopg2.OperationalError)
RetryIf(error) == error = "OperationalError"

\* What the wrapper does when the wrapped function ends: a returned value is
\* handed to the caller; an exception of the retried type starts another
\* attempt until the stop condition holds; any other exception, and the one
\* of the last attempt (reraise=True), is raised to the caller.
RetryDecision(raises, attempt_number) ==
    IF raises = None THEN "return"
    ELSE IF RetryIf(raises[1]) /\ attempt_number < StopAfterAttempt THEN "retry"
    ELSE "raise"

\* No wrapped call has been made.
RetryIdle ==
    [fn |-> "", state |-> "idle", attempt_number |-> 0, args |-> None,
     met |-> <<>>, result |-> None, error |-> None, sent |-> <<>>,
     access |-> FALSE]

\* A caller enters the wrapper: the first attempt is about to run.
RetryCall(fn, args) ==
    [fn |-> fn, state |-> "running", attempt_number |-> 1, args |-> args,
     met |-> <<>>, result |-> None, error |-> None, sent |-> <<>>,
     access |-> FALSE]

\* The wrapper after one attempt: met is the exception the attempt ran into
\* (whether or not it left the function), raises the exception that left it.
AfterAttempt(r, met, raises, result, sent, access) ==
    LET d == RetryDecision(raises, r.attempt_number)
    IN [r EXCEPT !.met = Append(@, met),
                 !.state = IF d = "retry" THEN "running"
                           ELSE IF d = "return" THEN "returned" ELSE "raised",
                 !.attempt_number = IF d = "retry" THEN @ + 1 ELSE @,
                 !.result = IF d = "return" THEN result ELSE None,
                 !.error = IF d = "raise" THEN raises ELSE None,
                 !.sent = @ \o sent,
                 !.access = @ \/ access]

----------------------------------------------------------------------------
(* handle_event *)

\* event.get("Records", [{}]): the default is a list holding one empty dict.
EmptyDictEntry ==
    [kind |-> "none", hasMessage |-> FALSE, Message |-> EmptyObjectMessage, s3 |-> <<>>]

OuterRecords(e) == IF e.hasRecords THEN e.Records ELSE <<EmptyDictEntry>>

\* entry.get("Sns", {}).get("Message", "{}")
SnsMessage(entry) ==
    IF entry.kind = "Sns" /\ entry.hasMessage THEN entry.Message ELSE EmptyObjectMessage

\* Lines 57-58: the list of storage records of the event, or the exception the
\* two statements raise.
ExtractRecords(e) ==
    IF OuterRecords(e) = <<>>
    THEN [error |-> Some("IndexError"), records |-> <<>>]
    ELSE LET message == SnsMessage(OuterRecords(e)[1])
         IN IF ~message.json
            THEN [error |-> Some("JSONDecodeError"), records |-> <<>>]
            ELSE [error |-> None,
                  records |-> IF message.hasRecords THEN message.Records ELSE <<>>]

\* The body of a response: a plain text, or json.dumps({"error": str(e)}).
TextBody(text) == [json |-> FALSE, text |-> text]
JsonErrorBody(error) == [json |-> TRUE, text |-> error]

Response(code, body) == [statusCode |-> code, body |-> body]

\* The status code handle_event answers when an exception reaches it (line 78).
ErrorStatusCode == 500
\* The status code of both normal returns (lines 63 and 74).
OkStatusCode == 200

Constructed ==
    /\ event = Event(FALSE, <<>>)
    /\ pc = "idle"
    /\ records = <<>>
    /\ idx = 1
    /\ exc = None
    /\ response = None
    /\ rpc = "none"
    /\ self = None
    /\ file_path = None
    /\ calibrated_filenames = None
    /\ science_file_id = None
    /\ science_product_id = None
    /\ k = 1
    /\ store = EmptyStore
    /\ dispatched = <<>>
    /\ calls = <<>>
    /\ runlog = <<>>
    /\ raised = {}
    /\ requeues = 0
    /\ retry = RetryIdle
    /\ other = Parked("idle", 1, None, "none", None, None, None, None, None, 1,
                      <<>>, <<>>, {})
    /\ selections = <<>>

Init == env \in Environments /\ Constructed

\* The state after construction when the test/diagnostic mode may be on.
InitTestData == env \in TestDataEnvironments /\ Constructed

\* The Lambda runtime hands an event to handle_event.
Receive ==
    /\ pc = "idle"
    /\ event' \in Events
    /\ pc' = "extract"
    /\ UNCHANGED <<env, records, idx, exc, response, rpc, rvars, store,
                   dispatched, calls, runlog, raised, requeues, xvars>>

\* Lines 56-60: decode the envelope and choose the branch.
Extract ==
    /\ pc = "extract"
    /\ LET r == ExtractRecords(event)
       IN IF r.error # None
          THEN /\ exc' = r.error
               /\ raised' = raised \cup {Raised("extract", r.error[1])}
               /\ pc' = "except"
               /\ UNCHANGED records
          ELSE /\ records' = r.records
               /\ pc' = IF r.records = <<>> THEN "requeue" ELSE "loop"
               /\ UNCHANGED <<exc, raised>>
    /\ UNCHANGED <<env, event, idx, response, rpc, rvars, store, dispatched, calls, runlog, requeues, xvars>>

\* Lines 66-72: the loop takes the next record and constructs a FileProcessor,
\* whose __init__ (lines 102-117) starts _process_file.
ProcessRecord ==
    /\ pc = "loop"
    /\ idx <= Len(records)
    /\ LET s3_bucket == records[idx].s3.bucket.name
           file_key == records[idx].s3.object.key
       IN /\ self' = Some([instrument_bucket_name |-> s3_bucket,
                           file_key |-> file_key,
                           environment |-> LambdaEnvironment,
                           dry_run |-> None,
                           module |-> FileProcessorModule])
          /\ calls' = Append(calls, Call(s3_bucket, file_key, "running"))
    /\ pc' = "run"
    /\ rpc' = "parse"
    /\ runlog' = <<>>
    /\ file_path' = None
    /\ calibrated_filenames' = None
    /\ science_file_id' = None
    /\ science_product_id' = None
    /\ k' = 1
    /\ UNCHANGED <<hvars, exc, store, dispatched, raised, requeues, xvars>>

\* Line 74: every record was processed.
ReturnProcessed ==
    /\ pc = "loop"
    /\ idx > Len(records)
    /\ response' = Some(Response(OkStatusCode, TextBody("Files processed successfully.")))
    /\ pc' = "done"
    /\ UNCHANGED <<env, event, records, idx, exc, rpc, rvars, store, dispatched, calls, runlog, raised, requeues, xvars>>

\* Mutant of HandleException: the except clause answers 200.
HandleException_Answers200 ==
    /\ pc = "except"
    /\ response' = Some(Response(OkStatusCode, JsonErrorBody(exc[1])))
    /\ pc' = "done"
    /\ UNCHANGED <<env, event, records, idx, exc, rpc, rvars, store,
                   dispatched, calls, runlog, raised, requeues, xvars>>

\* Lines 76-78: the except clause of handle_event.
HandleException ==
    /\ pc = "except"
    /\ response' = Some(Response(ErrorStatusCode, JsonErrorBody(exc[1])))
    /\ pc' = "done"
    /\ UNCHANGED <<env, event, records, idx, exc, rpc, rvars, store, dispatched, calls, runlog, raised, requeues, xvars>>

----------------------------------------------------------------------------
(* FileProcessor._process_file *)

Self == self[1]

\* Mutant of Falsy: "calibrated_filenames is None", which lets the empty list
\* through.
Falsy_NoneOnly(value) == value = None

\* "not calibrated_filenames": None and the empty list are both falsy.
Falsy(value) == value = None \/ value[1] = <<>>

\* An exception leaves _process_file and travels up to handle_event.
Propagate(site, error) ==
    /\ exc' = Some(error)
    /\ raised' = raised \cup {Raised(site, error)}
    /\ pc' = "except"
    /\ rpc' = "raised"
    /\ calls' = Ended(calls, "raised")
    /\ UNCHANGED idx

\* Mutant of Continue: a produced file is recorded before it is pushed.
Continue_RecordsBeforePush(next) ==
    /\ rpc' = IF next = "push" THEN "track_calibrated" ELSE next
    /\ UNCHANGED <<pc, idx, exc, calls>>

\* _process_file goes on with its next statement.
Continue(next) ==
    /\ rpc' = next
    /\ UNCHANGED <<pc, idx, exc, calls>>

\* _process_file returns; the loop of handle_event moves on.
ReturnToLoop ==
    /\ pc' = "loop"
    /\ rpc' = "returned"
    /\ calls' = Ended(calls, "returned")
    /\ idx' = idx + 1
    /\ UNCHANGED exc

\* Mutant of ParseFileKey: the instrument is not looked up before the download.
ParseFileKey_NoLookup ==
    /\ pc = "run" /\ rpc = "parse"
    /\ Continue("get_file") /\ UNCHANGED raised
    /\ UNCHANGED <<env, event, records, response, rvars, store, dispatched, runlog,
                   requeues, xvars>>

\* Lines 139-144: parse the key, look the instrument's bucket up.
ParseFileKey ==
    /\ pc = "run" /\ rpc = "parse"
    /\ IF env.instrumentConfigured
       THEN Continue("get_file") /\ UNCHANGED raised
       ELSE Propagate("parse", "KeyError")
    /\ UNCHANGED <<env, event, records, response, rvars, store, dispatched, runlog,
                   requeues, xvars>>

\* What object storage does to one download or upload.
StorageOutcomes == {"ok", "ClientError"}

\* get_science_file and push_science_file are handed dry_run (lines 151 and
\* 222): with it they leave object storage alone and cannot fail on it.
StorageOutcomesFor(dry_run) == IF dry_run = None THEN StorageOutcomes ELSE {"ok"}

\* The call moved an object to or from object storage.
Transferred(dry_run, outcome) == dry_run = None /\ outcome = "ok"

\* Lines 147-152: get_science_file downloads the object to a local path.
GetScienceFile ==
    /\ pc = "run" /\ rpc = "get_file"
    /\ \E outcome \in StorageOutcomesFor(Self.dry_run) :
         LET parsed_file_key == parse_file_key(Self.file_key)
             entry == LogEntry("get_science_file",
                               Target(Self.instrument_bucket_name, Self.file_key),
                               NoStatus, outcome,
                               Transferred(Self.dry_run, outcome))
         IN /\ runlog' = Append(runlog, entry)
            /\ IF outcome = "ok"
               THEN /\ file_path' = Some(Path("/tmp", parsed_file_key))
                    /\ Continue("calibrate")
                    /\ UNCHANGED raised
               ELSE /\ Propagate("get_science_file", outcome)
                    /\ UNCHANGED file_path
    /\ UNCHANGED <<env, event, records, response, self, calibrated_filenames,
                   science_file_id, science_product_id, k, store, dispatched,
                   requeues, xvars>>

\* What the instrument package's calibration.process_file does.
CalibrationOutcomes == {"files", "ValueError", "FileNotFoundError", "Exception"}

NextLevel(level) == IF level = "l0" THEN "l1" ELSE "ql"

\* calibration.process_file(path): the paths of the n files it generates.
process_file(path, n) ==
    [i \in 1..n |-> Path("/tmp", FileName(NextLevel(path.name.level), path.name.src, i))]

\* The test data file of the instrument package copied to /test_data (lines
\* 273-278).
TestDataPath == Path("/test_data", FileName("l0", 0, 0))

\* One character of the text of a path.  It is not a science file name: it
\* names no instrument and no level.
Character(path, i) == [instrument |-> "", level |-> "", src |-> path.name.src, n |-> i]

\* What "for calibrated_filename in calibrated_filenames" (line 208) goes
\* through when the value is a text: its characters, here the first two.
Characters(path) == [i \in 1..2 |-> Character(path, i)]

\* Lines 260-292: with USE_INSTRUMENT_TEST_DATA the first test data file is
\* calibrated and the first generated file is returned as it is, not in a
\* list; [0] of an empty list raises IndexError, which the last except clause
\* raises again.
use_test_data(outcome, n) ==
    IF outcome = "files"
    THEN IF n = 0
         THEN [error |-> Some("IndexError"), swallowed |-> None, value |-> None]
         ELSE [error |-> None, swallowed |-> None,
               value |-> Some(Characters(process_file(TestDataPath, n)[1]))]
    ELSE IF outcome \in {"ValueError", "FileNotFoundError"}
    THEN [error |-> None, swallowed |-> Some(outcome), value |-> None]
    ELSE [error |-> Some(outcome), swallowed |-> None, value |-> None]

\* Mutant of calibrate_file: ValueError is raised again like any other
\* exception.
calibrate_file_RaisesDomainError(test_data, outcome, path, n) ==
    IF test_data
    THEN use_test_data(outcome, n)
    ELSE IF outcome = "files"
    THEN LET files_list == process_file(path, n)
         IN [error |-> None, swallowed |-> None,
             value |-> Some([i \in 1..Len(files_list) |-> files_list[i].name])]
    ELSE IF outcome = "FileNotFoundError"
    THEN [error |-> None, swallowed |-> Some(outcome), value |-> None]
    ELSE [error |-> Some(outcome), swallowed |-> None, value |-> None]

\* Mutant of calibrate_file: the last except clause lacks its "raise e".
calibrate_file_SwallowsAll(test_data, outcome, path, n) ==
    IF test_data
    THEN use_test_data(outcome, n)
    ELSE IF outcome = "files"
    THEN LET files_list == process_file(path, n)
         IN [error |-> None, swallowed |-> None,
             value |-> Some([i \in 1..Len(files_list) |-> files_list[i].name])]
    ELSE [error |-> None, swallowed |-> Some(outcome), value |-> None]

\* FileProcessor._calibrate_file (lines 236-333): the base names of the
\* generated files; ValueError and FileNotFoundError are logged and the method
\* falls off its end (None); any other exception is logged and raised again.
calibrate_file(test_data, outcome, path, n) ==
    IF test_data
    THEN use_test_data(outcome, n)
    ELSE IF outcome = "files"
    THEN LET files_list == process_file(path, n)
         IN [error |-> None, swallowed |-> None,
             value |-> Some([i \in 1..Len(files_list) |-> files_list[i].name])]
    ELSE IF outcome \in {"ValueError", "FileNotFoundError"}
    THEN [error |-> None, swallowed |-> Some(outcome), value |-> None]
    ELSE [error |-> Some(outcome), swallowed |-> None, value |-> None]

\* Lines 154-160: calibrate and choose the branch.
CalibrateFile ==
    /\ pc = "run" /\ rpc = "calibrate"
    /\ \E outcome \in CalibrationOutcomes, n \in 0..MaxOutputs :
         /\ outcome # "files" => n = 0
         /\ LET r == calibrate_file(env.USE_INSTRUMENT_TEST_DATA, outcome,
                                    file_path[1], n)
                entry == LogEntry("calibrate", Target("", Self.file_key), NoStatus,
                                  outcome, FALSE)
            IN /\ runlog' = Append(runlog, entry)
               /\ IF r.error # None
                  THEN /\ Propagate("calibrate", r.error[1])
                       /\ UNCHANGED calibrated_filenames
                  ELSE /\ calibrated_filenames' = r.value
                       /\ Continue(IF Falsy(r.value) THEN "track_failed"
                                   ELSE "track_success")
                       /\ raised' = IF r.swallowed = None THEN raised
                                    ELSE raised \cup {Raised("calibrate", r.swallowed[1])}
    /\ UNCHANGED <<env, event, records, response, self, file_path, science_file_id,
                   science_product_id, k, store, dispatched, requeues, xvars>>

TrackRaised(t) ==
    IF t.error = None THEN raised ELSE raised \cup {Raised("track", t.error[1])}

TrackEntry(bucket, key, status, t) ==
    LogEntry("track", Target(bucket, key), status,
             IF t.result = None THEN "None" ELSE "ids", t.access)

\* Mutant of FailedStatus: an upload without output is left PENDING.
FailedStatus_Pending == build_status(PENDING, None)

\* Lines 162-165: the status recorded when calibration produced nothing.
FailedStatus == build_status(FAILED, None)

\* Lines 160-181: no calibrated file: record FAILED for the upload and return.
TrackFailed ==
    /\ pc = "run" /\ rpc = "track_failed"
    /\ \E outcome \in TrackOutcomes :
         LET status == FailedStatus
             t == track_file_metatracker(env, store, outcome, file_path[1],
                                         Self.file_key, Self.instrument_bucket_name,
                                         status)
         IN /\ runlog' = Append(runlog,
                           TrackEntry(Self.instrument_bucket_name, Self.file_key,
                                      status, t))
            /\ store' = t.store
            /\ raised' = TrackRaised(t)
    /\ ReturnToLoop
    /\ UNCHANGED <<env, event, records, response, rvars, dispatched, requeues, xvars>>

\* Lines 184-188: the status recorded for an upload whose calibration produced
\* files.
SuccessStatus == build_status(SUCCESS, None)

\* Lines 182-208: record SUCCESS for the upload, unpack the identifiers the
\* tracker returns and enter the loop over the produced files.
TrackSuccess ==
    /\ pc = "run" /\ rpc = "track_success"
    /\ \E outcome \in TrackOutcomes :
         LET status == SuccessStatus
             t == track_file_metatracker(env, store, outcome, file_path[1],
                                         Self.file_key, Self.instrument_bucket_name,
                                         status)
         IN /\ runlog' = Append(runlog,
                           TrackEntry(Self.instrument_bucket_name, Self.file_key,
                                      status, t))
            /\ store' = t.store
            /\ IF CanUnpack(t.result, 2)
               THEN /\ science_file_id' = Some(t.result[1])
                    /\ science_product_id' = Some(t.result[2])
                    /\ raised' = TrackRaised(t)
                    /\ IF Len(calibrated_filenames[1]) >= 1
                       THEN Continue("push")
                       ELSE ReturnToLoop
               ELSE /\ exc' = Some("TypeError")
                    /\ raised' = TrackRaised(t) \cup {Raised("unpack", "TypeError")}
                    /\ pc' = "except"
                    /\ rpc' = "raised"
                    /\ calls' = Ended(calls, "raised")
                    /\ UNCHANGED <<idx, science_file_id, science_product_id>>
    /\ UNCHANGED <<env, event, records, response, self, file_path,
                   calibrated_filenames, k, dispatched, requeues, xvars>>

\* Mutant of PendingStatus: origin_file_ids is not passed to build_status.
PendingStatus_NoOrigin(origin_id) == build_status(PENDING, None)

\* Mutant of PendingStatus: the origin is read back from the store as its
\* newest file instead of being kept from this run's own first write.
PendingStatus_NewestFile(origin_id) ==
    build_status(PENDING, Some(<<Cardinality(store.files)>>))

\* Lines 212-216: the status of a produced file names the upload as its origin.
PendingStatus(origin_id) == build_status(PENDING, Some(<<origin_id>>))

\* Lines 208-223: derive the key of the k-th produced file and push the file.
PushScienceFile ==
    /\ pc = "run" /\ rpc = "push"
    /\ \E outcome \in StorageOutcomesFor(Self.dry_run) :
         LET calibrated_filename == calibrated_filenames[1][k]
             destination_bucket == get_instrument_bucket(Instrument, Self.environment)
             filename_key == create_s3_file_key(calibrated_filename)
             entry == LogEntry("push", Target(destination_bucket, filename_key),
                               NoStatus, outcome,
                               Transferred(Self.dry_run, outcome))
         IN IF ~IsScienceFilename(calibrated_filename)
            THEN /\ Propagate("push", "ValueError")
                 /\ UNCHANGED runlog
            ELSE /\ runlog' = Append(runlog, entry)
                 /\ IF outcome = "ok"
                    THEN Continue("track_calibrated") /\ UNCHANGED raised
                    ELSE Propagate("push", outcome)
    /\ UNCHANGED <<env, event, records, response, rvars, store, dispatched, requeues, xvars>>

\* Lines 225-233: record the produced file; the result is not used.  After the
\* last produced file _process_file returns.
TrackCalibrated ==
    /\ pc = "run" /\ rpc = "track_calibrated"
    /\ \E outcome \in TrackOutcomes :
         LET calibrated_filename == calibrated_filenames[1][k]
             destination_bucket == get_instrument_bucket(Instrument, Self.environment)
             filename_key == create_s3_file_key(calibrated_filename)
             status == PendingStatus(science_file_id[1])
             t == track_file_metatracker(env, store, outcome,
                                         Path("/tmp", calibrated_filename),
                                         filename_key, destination_bucket, status)
         IN /\ runlog' = Append(runlog,
                           TrackEntry(destination_bucket, filename_key, status, t))
            /\ store' = t.store
            /\ raised' = TrackRaised(t)
    /\ IF k < Len(calibrated_filenames[1])
       THEN /\ k' = k + 1
            /\ Continue("push")
       ELSE /\ ReturnToLoop
            /\ UNCHANGED k
    /\ UNCHANGED <<env, event, records, response, self, file_path,
                   calibrated_filenames, science_file_id, science_product_id,
                   dispatched, requeues, xvars>>

----------------------------------------------------------------------------
(* fetch_data *)

\* The files that have a status 'failed' (lines 539-549).
FailedFiles(st) ==
    {f \in st.files :
        \E i \in 1..Len(st.statuses) :
            /\ st.statuses[i].science_file_id = f.science_file_id
            /\ st.statuses[i].processing_status = FAILED}

\* array_agg(soa.origin_file_id) over the failed statuses of one file.
OriginAgg(st, fid) ==
    LET rows == SelectSeq(st.statuses,
                  LAMBDA s : s.science_file_id = fid /\ s.processing_status = FAILED)
    IN [j \in 1..Len(rows) |-> rows[j].origin_file_ids]

\* One row per (s3_key, s3_bucket) group: s3_key, s3_bucket, origin_file_ids.
FailedRows(st) ==
    {<<f.s3_key, f.s3_bucket, OriginAgg(st, f.science_file_id)>> : f \in FailedFiles(st)}

\* cursor.fetchall(): the rows in the order the store returns them.
FetchAll(rows) ==
    CHOOSE q \in [1..Cardinality(rows) -> rows] : {q[i] : i \in DOMAIN q} = rows

\* Lines 563-578: the notification synthesized for one row.
RequeueEvent(s3_key, s3_bucket) == WrappedEvent(<<S3Record(s3_bucket, s3_key)>>)

\* Lines 558-584: "for s3_key, s3_bucket in results" unpacks each row into two
\* names and invokes the Lambda asynchronously.
RequeueLoop(results) ==
    IF results = <<>>
    THEN [error |-> None, sent |-> <<>>]
    ELSE IF ~CanUnpack(results[1], 2)
    THEN [error |-> Some("ValueError"), sent |-> <<>>]
    ELSE [error |-> None,
          sent |-> [i \in 1..Len(results) |-> RequeueEvent(results[i][1], results[i][2])]]

\* What the store does to the connection fetch_data opens.
ConnectOutcomes == {"connected", "OperationalError"}

\* fetch_data (lines 513-590): every exception of the try block is logged by
\* the except clause and the function returns None. Its only statement on the
\* store is the SELECT of lines 539-549: the store it leaves is the store it
\* found. selected is the result of the query when the query ran.
fetch_data(e, st, outcome) ==
    IF ~e.RDS_SECRET_ARN \/ ~e.AWS_LAMBDA_FUNCTION_NAME
    THEN [error |-> None, swallowed |-> None, sent |-> <<>>, access |-> FALSE,
          store |-> st, selected |-> None]
    ELSE IF outcome = "OperationalError"
    THEN [error |-> None, swallowed |-> Some(outcome), sent |-> <<>>, access |-> TRUE,
          store |-> st, selected |-> None]
    ELSE LET loop == RequeueLoop(FetchAll(FailedRows(st)))
         IN [error |-> None, swallowed |-> loop.error, sent |-> loop.sent,
             access |-> TRUE, store |-> st, selected |-> Some(FailedRows(st))]

\* What one fetch_data call did, for the history of the calls: the number of
\* status rows the store held, the rows selected, the events dispatched, and
\* whether the call changed the store or started a processing run.
Selection(st, r) ==
    [writes |-> Len(st.statuses), selected |-> r.selected, sent |-> r.sent,
     wrote |-> r.store # st]

\* Lines 60-63: no record: re-drive the failed files and answer 200.
Requeue ==
    /\ pc = "requeue"
    /\ \E outcome \in ConnectOutcomes :
         LET r == fetch_data(env, store, outcome)
         IN /\ requeues' = requeues + 1
            /\ dispatched' = dispatched \o r.sent
            /\ store' = r.store
            /\ raised' = IF r.swallowed = None THEN raised
                         ELSE raised \cup {Raised("fetch_data", r.swallowed[1])}
            /\ IF r.error # None
               THEN /\ exc' = r.error
                    /\ pc' = "except"
                    /\ UNCHANGED response
               ELSE /\ response' = Some(Response(OkStatusCode,
                                          TextBody("Reprocessed data from database.")))
                    /\ pc' = "done"
                    /\ UNCHANGED exc
    /\ UNCHANGED <<env, event, records, idx, rpc, rvars, calls, runlog, xvars>>

----------------------------------------------------------------------------
(* The retried functions, attempt by attempt *)

\* Most status rows the store receives from direct tracker calls.
MaxStatuses == 3
\* Most fetch_data calls made one after the other.
MaxRequeues == 2

\* The uploads direct tracker calls are about.
TrackedKeys == {UploadKey(1), UploadKey(2)}

\* What a caller may pass as file_path: a Path, a str, the empty str, None.
FilePathArgs == {"Path", "str", "", "None"}

\* Line 364: "not file_path or not isinstance(file_path, Path)".
InvalidPath(path_arg) == path_arg \in {"", "None"} \/ path_arg # "Path"

\* The body of _track_file_metatracker (lines 360-420) for any file_path
\* argument: the ValueError of line 365 is caught by the except clause of
\* line 412 like every other exception.
TrackBody(e, st, outcome, path_arg, path, s3_key, s3_bucket, status) ==
    IF e.RDS_SECRET_ARN /\ InvalidPath(path_arg)
    THEN [result |-> None, store |-> st, access |-> FALSE,
          error |-> Some("ValueError")]
    ELSE track_file_metatracker(e, st, outcome, path, s3_key, s3_bucket, status)

\* Lines 412-420: the except clause returns None, so no exception leaves the
\* body.
TrackBodyRaises(t) == None

\* A caller calls FileProcessor._track_file_metatracker (lines 335-349).
CallTrack ==
    /\ pc = "idle"
    /\ retry.state # "running"
    /\ Len(store.statuses) < MaxStatuses
    /\ \E s3_key \in TrackedKeys, status \in {SuccessStatus, FailedStatus},
          path_arg \in FilePathArgs :
         retry' = RetryCall("_track_file_metatracker",
                            Some([file_path |-> path_arg,
                                  path |-> Path("/tmp", parse_file_key(s3_key)),
                                  s3_key |-> s3_key,
                                  s3_bucket |-> SourceBucket,
                                  status |-> status]))
    /\ UNCHANGED <<env, event, pc, records, idx, exc, response, rpc, rvars, store,
                   dispatched, calls, runlog, raised, requeues, other, selections>>

\* One attempt of _track_file_metatracker and the wrapper's decision.
AttemptTrack ==
    /\ retry.state = "running"
    /\ retry.fn = "_track_file_metatracker"
    /\ \E outcome \in TrackOutcomes :
         LET a == retry.args[1]
             t == TrackBody(env, store, outcome, a.file_path, a.path, a.s3_key,
                            a.s3_bucket, a.status)
         IN /\ retry' = AfterAttempt(retry, t.error, TrackBodyRaises(t), t.result,
                                     <<>>, t.access)
            /\ store' = t.store
    /\ UNCHANGED <<env, event, pc, records, idx, exc, response, rpc, rvars,
                   dispatched, calls, runlog, raised, requeues, other, selections>>

\* A caller calls fetch_data (lines 507-513).
CallFetchData ==
    /\ pc = "idle"
    /\ retry.state # "running"
    /\ requeues < MaxRequeues
    /\ retry' = RetryCall("fetch_data", None)
    /\ requeues' = requeues + 1
    /\ UNCHANGED <<env, event, pc, records, idx, exc, response, rpc, rvars, store,
                   dispatched, calls, runlog, raised, other, selections>>

\* One attempt of fetch_data and the wrapper's decision.
AttemptFetchData ==
    /\ retry.state = "running"
    /\ retry.fn = "fetch_data"
    /\ \E outcome \in ConnectOutcomes :
         LET r == fetch_data(env, store, outcome)
         IN /\ retry' = AfterAttempt(retry, r.swallowed, r.error, None, r.sent,
                                     r.access)
            /\ dispatched' = dispatched \o r.sent
            /\ store' = r.store
            /\ selections' = Append(selections, Selection(store, r))
    /\ UNCHANGED <<env, event, pc, records, idx, exc, response, rpc, rvars,
                   calls, runlog, raised, requeues, other>>

----------------------------------------------------------------------------
(* FileProcessor constructed by a caller of its own *)

\* What a caller passes as dry_run: nothing (None) or True.
DryRunArgs == {None, Some(TRUE)}

\* The environment names a caller passes.
EnvironmentArgs == {"DEVELOPMENT", "PRODUCTION"}

\* FileProcessor(s3_bucket, file_key, environment, dry_run): __init__ (lines
\* 102-117) keeps the arguments and starts _process_file.
Construct ==
    /\ pc = "idle"
    /\ \E i \in 1..MaxRecords, environment \in EnvironmentArgs,
          dry_run \in DryRunArgs :
         /\ self' = Some([instrument_bucket_name |-> SourceBucket,
                          file_key |-> UploadKey(i),
                          environment |-> environment,
                          dry_run |-> dry_run,
                          module |-> FileProcessorModule])
         /\ calls' = Append(calls, Call(SourceBucket, UploadKey(i), "running"))
    /\ pc' = "run"
    /\ rpc' = "parse"
    /\ runlog' = <<>>
    /\ file_path' = None
    /\ calibrated_filenames' = None
    /\ science_file_id' = None
    /\ science_product_id' = None
    /\ k' = 1
    /\ UNCHANGED <<hvars, exc, store, dispatched, raised, requeues, xvars>>

----------------------------------------------------------------------------
(* lambda.py: handler and environment_setup *)

\* The module environment_setup imports its other FileProcessor from.
DevFileProcessorModule == "dev_file_processor.file_processor"

\* The values of LAMBDA_ENVIRONMENT (line 37; unset reads "DEVELOPMENT").
HandlerEnvironments == {"DEVELOPMENT", "PRODUCTION", "Production"}

\* Lines 84-99: the class environment_setup instantiates.
ProcessorModule(environment) ==
    IF environment = "Production" THEN FileProcessorModule ELSE DevFileProcessorModule

\* Line 42: json.loads(event["Records"][0]["Sns"]["Message"])["Records"], or
\* the exception the subscripts raise.
HandlerRecords(e) ==
    IF ~e.hasRecords THEN [error |-> Some("KeyError"), records |-> <<>>]
    ELSE IF e.Records = <<>> THEN [error |-> Some("IndexError"), records |-> <<>>]
    ELSE LET entry == e.Records[1]
         IN IF entry.kind # "Sns" \/ ~entry.hasMessage
            THEN [error |-> Some("KeyError"), records |-> <<>>]
            ELSE IF ~entry.Message.json
            THEN [error |-> Some("JSONDecodeError"), records |-> <<>>]
            ELSE IF ~entry.Message.hasRecords
            THEN [error |-> Some("KeyError"), records |-> <<>>]
            ELSE [error |-> None, records |-> entry.Message.Records]

\* json.dumps(text): the body of the responses of lambda.py.
JsonTextBody(text) == [json |-> TRUE, text |-> text]

\* The Lambda runtime hands an event to handler.
HandlerReceive ==
    /\ pc = "idle"
    /\ event' \in Events
    /\ pc' = "handler"
    /\ UNCHANGED <<env, records, idx, exc, response, rpc, rvars, store,
                   dispatched, calls, runlog, raised, requeues, xvars>>

\* Lines 36-45: read the records; with none the loop body never runs and
\* handler falls off its end, returning None.
HandlerExtract ==
    /\ pc = "handler"
    /\ LET r == HandlerRecords(event)
       IN IF r.error # None
          THEN /\ exc' = r.error
               /\ raised' = raised \cup {Raised("handler", r.error[1])}
               /\ pc' = "handler_except"
               /\ UNCHANGED records
          ELSE /\ records' = r.records
               /\ pc' = IF r.records = <<>> THEN "done" ELSE "setup"
               /\ UNCHANGED <<exc, raised>>
    /\ UNCHANGED <<env, event, idx, response, rpc, rvars, store, dispatched, calls,
                   runlog, requeues, xvars>>

\* Lines 47-53 and 82-99: environment_setup is called for the first record and
\* instantiates the class its environment selects.  The code of
\* dev_file_processor is not part of the sources: its run ends one way or the
\* other.
EnvironmentSetup ==
    /\ pc = "setup"
    /\ \E environment \in HandlerEnvironments, ended \in {"returned", "raised"} :
         LET s3_bucket == records[idx].s3.bucket.name
             file_key == records[idx].s3.object.key
             module == ProcessorModule(environment)
         IN /\ self' = Some([instrument_bucket_name |-> s3_bucket,
                             file_key |-> file_key,
                             environment |-> environment,
                             dry_run |-> None,
                             module |-> module])
            /\ IF module = FileProcessorModule
               THEN /\ ended = "returned"
                    /\ calls' = Append(calls, Call(s3_bucket, file_key, "running"))
                    /\ pc' = "run"
                    /\ rpc' = "parse"
                    /\ UNCHANGED <<exc, raised>>
               ELSE /\ calls' = Append(calls, Call(s3_bucket, file_key, ended))
                    /\ rpc' = ended
                    /\ pc' = IF ended = "returned" THEN "loop" ELSE "except"
                    /\ exc' = IF ended = "returned" THEN exc ELSE Some("Exception")
                    /\ raised' = IF ended = "returned" THEN raised
                                 ELSE raised \cup {Raised("dev_file_processor", "Exception")}
    /\ runlog' = <<>>
    /\ file_path' = None
    /\ calibrated_filenames' = None
    /\ science_file_id' = None
    /\ science_product_id' = None
    /\ k' = 1
    /\ UNCHANGED <<hvars, store, dispatched, requeues, xvars>>

\* Lines 101-104 and 55: environment_setup answers 200 and handler returns
\* that response from inside its loop.
EnvironmentSetupReturn ==
    /\ pc = "loop"
    /\ response' = Some(Response(OkStatusCode, JsonTextBody("File Processed Successfully")))
    /\ pc' = "done"
    /\ UNCHANGED <<env, event, records, idx, exc, rpc, rvars, store, dispatched,
                   calls, runlog, raised, requeues, xvars>>

\* Lines 106-112 and 55: the except clause of environment_setup.
EnvironmentSetupExcept ==
    /\ pc = "except"
    /\ response' = Some(Response(ErrorStatusCode, JsonTextBody("Error Processing File")))
    /\ pc' = "done"
    /\ UNCHANGED <<env, event, records, idx, exc, rpc, rvars, store, dispatched,
                   calls, runlog, raised, requeues, xvars>>

\* Lines 57-65: the except clause of handler.
HandlerExcept ==
    /\ pc = "handler_except"
    /\ response' = Some(Response(ErrorStatusCode, JsonTextBody(exc[1])))
    /\ pc' = "done"
    /\ UNCHANGED <<env, event, records, idx, exc, rpc, rvars, store, dispatched,
                   calls, runlog, raised, requeues, xvars>>

----------------------------------------------------------------------------
(* Two worker instances *)

\* The local state of the worker instance that is followed.
Active ==
    Parked(pc, idx, exc, rpc, self, file_path, calibrated_filenames,
           science_file_id, science_product_id, k, calls, runlog, raised)

\* Lines 66-72 in a worker instance whose event names one upload, an upload
\* the other instance is not processing.
StartWorker ==
    /\ pc = "idle"
    /\ \E i \in 1..MaxRecords :
         /\ IF other.self = None THEN TRUE
            ELSE other.self[1].file_key # UploadKey(i)
         /\ self' = Some([instrument_bucket_name |-> SourceBucket,
                          file_key |-> UploadKey(i),
                          environment |-> LambdaEnvironment,
                          dry_run |-> None,
                          module |-> FileProcessorModule])
         /\ calls' = <<Call(SourceBucket, UploadKey(i), "running")>>
    /\ pc' = "run"
    /\ rpc' = "parse"
    /\ runlog' = <<>>
    /\ file_path' = None
    /\ calibrated_filenames' = None
    /\ science_file_id' = None
    /\ science_product_id' = None
    /\ k' = 1
    /\ UNCHANGED <<hvars, exc, store, dispatched, raised, requeues, xvars>>

\* The next step is taken by the other worker instance: the two local states
\* change places, the lineage store is the one they share.
Switch ==
    /\ other # Active
    /\ other' = Active
    /\ pc' = other.pc
    /\ idx' = other.idx
    /\ exc' = other.exc
    /\ rpc' = other.rpc
    /\ self' = other.self
    /\ file_path' = other.file_path
    /\ calibrated_filenames' = other.calibrated_filenames
    /\ science_file_id' = other.science_file_id
    /\ science_product_id' = other.science_product_id
    /\ k' = other.k
    /\ calls' = other.calls
    /\ runlog' = other.runlog
    /\ raised' = other.raised
    /\ UNCHANGED <<env, event, records, response, store, dispatched, requeues,
                   retry, selections>>

----------------------------------------------------------------------------
(* Specification *)

Next ==
    \/ Receive
    \/ Extract
    \/ Requeue
    \/ ProcessRecord
    \/ ReturnProcessed
    \/ HandleException
    \/ ParseFileKey
    \/ GetScienceFile
    \/ CalibrateFile
    \/ TrackFailed
    \/ TrackSuccess
    \/ PushScienceFile
    \/ TrackCalibrated

Spec == Init /\ [][Next]_vars

\* The tracker and the requeue driver called directly, any number of times,
\* against the shared store.
TrackerNext ==
    \/ CallTrack
    \/ AttemptTrack
    \/ CallFetchData
    \/ AttemptFetchData

SpecTracker == Init /\ [][TrackerNext]_vars

\* One FileProcessor constructed by a caller of its own, with any environment
\* and with or without dry_run; pc = "loop" / "except" is then the caller's
\* statement after the constructor returned / raised.
ProcessorNext ==
    \/ Construct
    \/ ParseFileKey
    \/ GetScienceFile
    \/ CalibrateFile
    \/ TrackFailed
    \/ TrackSuccess
    \/ PushScienceFile
    \/ TrackCalibrated

SpecProcessor == Init /\ [][ProcessorNext]_vars

\* The same caller with the test/diagnostic mode of _calibrate_file.
SpecTestData == InitTestData /\ [][ProcessorNext]_vars

\* One invocation of handler of lambda.py.
LambdaNext ==
    \/ HandlerReceive
    \/ HandlerExtract
    \/ EnvironmentSetup
    \/ EnvironmentSetupReturn
    \/ EnvironmentSetupExcept
    \/ HandlerExcept
    \/ ParseFileKey
    \/ GetScienceFile
    \/ CalibrateFile
    \/ TrackFailed
    \/ TrackSuccess
    \/ PushScienceFile
    \/ TrackCalibrated

SpecLambda == Init /\ [][LambdaNext]_vars

\* Two worker instances, each running one FileProcessor on an upload of its
\* own, their steps interleaved in any order.
ConcurrentNext ==
    \/ StartWorker
    \/ Switch
    \/ ParseFileKey
    \/ GetScienceFile
    \/ CalibrateFile
    \/ TrackFailed
    \/ TrackSuccess
    \/ PushScienceFile
    \/ TrackCalibrated

SpecConcurrent == Init /\ [][ConcurrentNext]_vars

----------------------------------------------------------------------------
(* Vocabulary of the properties *)

\* The collaborator calls of the current run, by kind.
LogOf(op) == SelectSeq(runlog, LAMBDA e : e.op = op)
Pushes == LogOf("push")
Tracks == LogOf("track")
TracksWith(status) ==
    SelectSeq(runlog, LAMBDA e : e.op = "track" /\ e.status.processing_status = status)

\* The outcome the calibration package gave in the current run, if it ran.
Calibrated(outcome) == \E i \in 1..Len(runlog) :
    runlog[i].op = "calibrate" /\ runlog[i].outcome = outcome

\* The number of file names calibration returned to _process_file.
NumOutputs ==
    IF calibrated_filenames = None THEN 0 ELSE Len(calibrated_filenames[1])

RunReturned == rpc = "returned"
RunRaised == rpc = "raised"
RunEnded == RunReturned \/ RunRaised

\* The identifier the store holds for the upload of the current run.
OriginalIds ==
    {f.science_file_id : f \in FileRows(store, Self.file_key, Self.instrument_bucket_name)}

\* The store's statuses of one kind.
StatusesWith(status) ==
    SelectSeq(store.statuses, LAMBDA s : s.processing_status = status)

\* The key and bucket the k-th produced file of the current run is stored at.
OutputTarget(i) ==
    Target(get_instrument_bucket(Instrument, Self.environment),
           create_s3_file_key(FileName("l1", Self.file_key.name.src, i)))

Answered(code) == pc = "done" /\ response # None /\ response[1].statusCode = code

\* The (bucket, key) pairs of a list of storage records / of the calls made.
PairsOf(recs) == [i \in 1..Len(recs) |->
                    Target(recs[i].s3.bucket.name, recs[i].s3.object.key)]
CalledPairs == [i \in 1..Len(calls) |-> Target(calls[i].bucket, calls[i].key)]

----------------------------------------------------------------------------
(* C1 *)

\* The pushes and PENDING lineage writes a run with N outputs has to show: one
\* push and one PENDING write per output, in order, each write naming as origin
\* the identifier the store assigned to the upload.
OnePushAndPendingPerOutput ==
    /\ Len(Pushes) = NumOutputs
    /\ Len(TracksWith(PENDING)) = NumOutputs
    /\ \A i \in 1..NumOutputs :
         /\ Pushes[i].target = OutputTarget(i)
         /\ TracksWith(PENDING)[i].target = OutputTarget(i)
         /\ \E id \in OriginalIds :
              TracksWith(PENDING)[i].status.origin_file_ids = Some(<<id>>)

\* Every PENDING status in the store names exactly one origin, and that origin
\* is a file of the store that has a SUCCESS status.
PendingRowsLinked ==
    \A i \in 1..Len(store.statuses) :
        store.statuses[i].processing_status = PENDING =>
            \E j \in 1..(i - 1) :
                /\ store.statuses[j].processing_status = SUCCESS
                /\ store.statuses[i].origin_file_ids =
                     Some(<<store.statuses[j].science_file_id>>)

\* The store assigned an identifier to the upload in the current run.
OriginAssigned ==
    /\ Len(TracksWith(SUCCESS)) = 1
    /\ TracksWith(SUCCESS)[1].outcome = "ids"
    /\ OriginalIds # {}

\* C1 as stated: every run in which calibration returned N >= 1 file names
\* (and the store assigned an identifier to the upload) ends with N pushes and
\* N PENDING lineage writes, each naming that identifier as origin.
C1_EveryRunPushesAndTracksAll ==
    (RunEnded /\ NumOutputs >= 1 /\ OriginAssigned) => OnePushAndPendingPerOutput

\* C1 amended: a run in which calibration returned N >= 1 file names and which
\* completes without raising made exactly N pushes and N PENDING lineage
\* writes, one per output in order, each naming as origin the identifier the
\* store assigned to the upload in that run; a run that raised made at most N
\* of each; and every PENDING status the store holds names such an origin.
C1_CompletedRunPushesAndTracksAll ==
    /\ (RunReturned /\ NumOutputs >= 1) => OnePushAndPendingPerOutput
    /\ (pc = "run" \/ RunEnded) =>
         /\ Len(Pushes) <= NumOutputs
         /\ Len(TracksWith(PENDING)) <= Len(Pushes)
         /\ \A i \in 1..Len(TracksWith(PENDING)) : \E id \in OriginalIds :
              TracksWith(PENDING)[i].status.origin_file_ids = Some(<<id>>)
    /\ PendingRowsLinked

\* A run with two outputs returned after two pushes and two accepted PENDING
\* writes, in a store that already held another file.
C1_Witness ==
    /\ RunReturned
    /\ NumOutputs = 2
    /\ Len(Pushes) = 2
    /\ Len(TracksWith(PENDING)) = 2
    /\ \A i \in 1..2 : TracksWith(PENDING)[i].outcome = "ids"
    /\ Len(calls) = 2
    /\ Len(StatusesWith(PENDING)) >= 3

----------------------------------------------------------------------------
(* C2 *)

\* Calibration handed _process_file an empty list or None in the current run.
CalibratedNothing ==
    /\ pc = "run" \/ RunEnded
    /\ NumOutputs = 0
    /\ \E i \in 1..Len(runlog) :
         runlog[i].op = "calibrate" /\ runlog[i].outcome # "Exception"

\* The only lineage write of the run is the one for the upload, with FAILED.
OnlyFailedWrite ==
    /\ Len(Tracks) = 1
    /\ Tracks[1].target = Target(Self.instrument_bucket_name, Self.file_key)
    /\ Tracks[1].status = build_status(FAILED, None)

\* The last status of the store is a FAILED status of the upload.
FailedRecorded ==
    /\ store.statuses # <<>>
    /\ LET last == store.statuses[Len(store.statuses)]
       IN /\ last.processing_status = FAILED
          /\ last.science_file_id \in OriginalIds

----------------------------------------------------------------------------
(* C5 *)

\* C5: when the calibration callable raises ValueError, _calibrate_file
\* swallows it and returns None, no exception reaches the caller of
\* _process_file, no push is made, and the returned run has made one lineage
\* write, FAILED for the upload (held by the store when the store accepted it).
C5_DomainErrorRecordsFailed ==
    Calibrated("ValueError") =>
        /\ calibrated_filenames = None
        /\ "calibrate" \in raised
        /\ rpc \in {"track_failed", "returned"}
        /\ exc = None
        /\ calls[Len(calls)].result # "raised"
        /\ Len(Pushes) = 0
        /\ RunReturned =>
             /\ Len(TracksWith(FAILED)) = 1
             /\ Len(Tracks) = 1
             /\ Tracks[1].target = Target(Self.instrument_bucket_name, Self.file_key)
             /\ Tracks[1].outcome = "ids" => FailedRecorded

\* A run whose calibration raised ValueError has returned and its FAILED
\* status is in the store.
C5_Witness ==
    /\ Calibrated("ValueError")
    /\ RunReturned
    /\ Len(TracksWith(FAILED)) = 1
    /\ Tracks[1].outcome = "ids"
    /\ FailedRecorded

----------------------------------------------------------------------------
(* C3 *)

\* The lineage write for the upload of a run with N >= 1 outputs was attempted
\* and failed: the tracker wrote nothing and handed back None.
FirstWriteFailed ==
    /\ env.RDS_SECRET_ARN
    /\ NumOutputs >= 1
    /\ Len(TracksWith(SUCCESS)) = 1
    /\ TracksWith(SUCCESS)[1].outcome = "None"

\* C3: a failed lineage write for the upload is not fatal: the run does not
\* raise, the lineage writes of the produced files are skipped, and
\* handle_event does not answer 500 on account of it.
C3_FirstWriteFailureIsNotFatal ==
    FirstWriteFailed =>
        /\ ~RunRaised
        /\ exc = None
        /\ Len(TracksWith(PENDING)) = 0
        /\ ~Answered(ErrorStatusCode)

----------------------------------------------------------------------------
(* C4 *)

\* No download and no upload failed in the current run.
StorageWorked ==
    \A i \in 1..Len(runlog) :
        runlog[i].op \in {"get_science_file", "push"} => runlog[i].outcome = "ok"

\* C4: without RDS_SECRET_ARN no track call touches the lineage store, and a
\* run whose calibration returned (nothing, or N >= 1 files) and whose
\* transfers worked does not raise, pushes every produced file once it has
\* ended, and handle_event answers 200 after it.
C4_NoSecretDisablesTracking ==
    ~env.RDS_SECRET_ARN =>
        /\ \A i \in 1..Len(runlog) : runlog[i].op = "track" => ~runlog[i].access
        /\ store = EmptyStore
        /\ (RunEnded /\ StorageWorked /\ ~Calibrated("Exception")
              /\ env.instrumentConfigured) =>
             /\ RunReturned
             /\ Len(Pushes) = NumOutputs
             /\ pc = "done" => Answered(OkStatusCode)

----------------------------------------------------------------------------
(* C6 *)

\* The calibration callable raised an unexpected exception in the current run
\* of a batch of several records.
UnexpectedInBatch == Calibrated("Exception") /\ Len(records) >= 2

\* The exception was raised again, nothing was written or pushed for the
\* record, and handle_event answers 500 with the message as JSON body.
ReRaisedAndReported ==
    /\ RunRaised
    /\ exc = Some("Exception")
    /\ calls[Len(calls)].result = "raised"
    /\ Len(Tracks) = 0
    /\ Len(Pushes) = 0
    /\ pc \in {"except", "done"}
    /\ pc = "done" =>
         response = Some(Response(ErrorStatusCode, JsonErrorBody("Exception")))

\* C6 as stated: ... and the other records of the batch are still processed
\* unless the failing record is the first one.
C6_OtherRecordsStillProcessed ==
    UnexpectedInBatch =>
        /\ ReRaisedAndReported
        /\ (pc = "done" /\ Len(calls) > 1) => CalledPairs = PairsOf(records)

\* C6 amended: ... the records before the failing one were processed to their
\* end, and the records after it are not processed: the loop stops at the
\* failing record.
C6_LoopStopsAtFailingRecord ==
    UnexpectedInBatch =>
        /\ ReRaisedAndReported
        /\ CalledPairs = SubSeq(PairsOf(records), 1, idx)
        /\ \A i \in 1..(Len(calls) - 1) : calls[i].result = "returned"

\* The second of three records failed in calibration: the first was processed,
\* the third never was, and 500 was answered.
C6_Witness ==
    /\ UnexpectedInBatch
    /\ Answered(ErrorStatusCode)
    /\ Len(records) = 3
    /\ Len(calls) = 2
    /\ calls[1].result = "returned"

----------------------------------------------------------------------------
(* C7 *)

EveryCallReturned == \A i \in 1..Len(calls) : calls[i].result = "returned"

\* The event is a wrapped one whose message carries n >= 1 storage records.
WrappedWithRecords ==
    /\ event.hasRecords
    /\ event.Records # <<>>
    /\ event.Records[1].kind = "Sns"
    /\ event.Records[1].hasMessage
    /\ event.Records[1].Message.json
    /\ event.Records[1].Message.hasRecords
    /\ event.Records[1].Message.Records # <<>>

MessageRecords == event.Records[1].Message.Records

\* C7 as stated: the orchestrator is called exactly once per pair, in record
\* order, and the answer is 200 exactly when every one of the n calls
\* completed without raising.
C7_OneCallPerRecord ==
    (pc = "done" /\ WrappedWithRecords) =>
        /\ CalledPairs = PairsOf(MessageRecords)
        /\ Answered(OkStatusCode) <=> EveryCallReturned

\* C7 amended: the orchestrator is called at most once per pair, in record
\* order, up to and including the first call that raises (exactly once per
\* pair when none raises), and the single answer is 200 exactly when all n
\* calls were made and completed without raising, and 500 otherwise.
C7_OneCallPerRecordUntilRaise ==
    (pc = "done" /\ WrappedWithRecords) =>
        /\ Len(calls) <= Len(MessageRecords)
        /\ CalledPairs = SubSeq(PairsOf(MessageRecords), 1, Len(calls))
        /\ \A i \in 1..(Len(calls) - 1) : calls[i].result = "returned"
        /\ calls # <<>> /\ calls[Len(calls)].result \in {"returned", "raised"}
        /\ EveryCallReturned => Len(calls) = Len(MessageRecords)
        /\ Answered(OkStatusCode) <=>
             (Len(calls) = Len(MessageRecords) /\ EveryCallReturned)
        /\ Answered(ErrorStatusCode) <=> ~EveryCallReturned

\* A wrapped event of three records was answered 200 after three calls.
C7_Witness ==
    /\ WrappedWithRecords
    /\ Answered(OkStatusCode)
    /\ Len(MessageRecords) = 3
    /\ Len(calls) = 3
    /\ EveryCallReturned

----------------------------------------------------------------------------
(* C8 *)

\* C8: handle_event answers 500, with the error message as JSON body, whenever
\* an exception was raised anywhere below it (envelope decoding, the
\* orchestrator and its collaborators, the requeue driver), and never 200.
C8_AnyExceptionAnswers500 ==
    (pc = "done" /\ raised # {}) =>
        /\ Answered(ErrorStatusCode)
        /\ response[1].body.json

----------------------------------------------------------------------------
(* C9 *)

\* The event carries no file record: no Records field, an empty outer Records
\* list, or a wrapped message whose Records list is empty or missing.
NoFileRecords ==
    \/ ~event.hasRecords
    \/ event.Records = <<>>
    \/ /\ event.Records[1].kind = "Sns"
       /\ SnsMessage(event.Records[1]).json
       /\ \/ ~SnsMessage(event.Records[1]).hasRecords
          \/ SnsMessage(event.Records[1]).Records = <<>>

\* C9: for an event without file records handle_event calls fetch_data exactly
\* once, never constructs a FileProcessor, and answers 200.
C9_NoRecordsRequeues ==
    (pc = "done" /\ NoFileRecords) =>
        /\ requeues = 1
        /\ calls = <<>>
        /\ Answered(OkStatusCode)

----------------------------------------------------------------------------
(* C10 *)

\* The event has the direct shape with n >= 1 records.
DirectWithRecords ==
    /\ event.hasRecords
    /\ event.Records # <<>>
    /\ \A i \in 1..Len(event.Records) : event.Records[i].kind = "s3"

DirectRecords == [i \in 1..Len(event.Records) |-> event.Records[i].s3[1]]

\* C10: a direct event is processed like the wrapped event that carries the
\* same records: handle_event iterates over these records and constructs a
\* FileProcessor for them, and does not take the requeue branch.
C10_DirectShapeAccepted ==
    (pc = "done" /\ DirectWithRecords) =>
        /\ records = ExtractRecords(WrappedEvent(DirectRecords)).records
        /\ calls # <<>>
        /\ CalledPairs = SubSeq(PairsOf(DirectRecords), 1, Len(calls))
        /\ requeues = 0

----------------------------------------------------------------------------
(* C11 *)

FetchDataEnded == retry.fn = "fetch_data" /\ retry.state \in {"returned", "raised"}

\* fetch_data had its configuration and the store answered its query.
QueryAnswered ==
    /\ FetchDataEnded
    /\ env.RDS_SECRET_ARN /\ env.AWS_LAMBDA_FUNCTION_NAME
    /\ retry.met[1] # Some("OperationalError")

\* C11: when fetch_data runs with its configuration present and the query
\* returns k rows, it sends exactly k asynchronous re-invocations, one per row,
\* each a wrapped single-record notification with that row's bucket and key.
C11_OneDispatchPerRow ==
    QueryAnswered =>
        /\ Len(retry.sent) = Cardinality(FailedRows(store))
        /\ \A row \in FailedRows(store) :
             \E i \in 1..Len(retry.sent) :
                retry.sent[i] = RequeueEvent(row[1], row[2])

----------------------------------------------------------------------------
(* C12 *)

\* The status written last for a file.
LatestStatus(st, fid) ==
    LET rows == SelectSeq(st.statuses, LAMBDA row : row.science_file_id = fid)
    IN rows[Len(rows)].processing_status

RowsOf(st, f) ==
    {row \in FailedRows(st) : row[1] = f.s3_key /\ row[2] = f.s3_bucket}

\* C12: after any sequence of status writes, a file is in the result of the
\* failed-file query if and only if the latest status recorded for it is
\* FAILED, and a selected (key, bucket) appears in exactly one row.
C12_SelectedIffLatestFailed ==
    \A f \in store.files :
        /\ RowsOf(store, f) # {} <=> LatestStatus(store, f.science_file_id) = FAILED
        /\ Cardinality(RowsOf(store, f)) <= 1

----------------------------------------------------------------------------
(* C13 *)

TrackEnded ==
    retry.fn = "_track_file_metatracker" /\ retry.state \in {"returned", "raised"}

Transient == Some("OperationalError")

\* Every attempt that met the transient error was followed by another one,
\* except the last allowed attempt, whose error was raised to the caller.
RetriedUntilStop ==
    \A j \in 1..Len(retry.met) :
        retry.met[j] = Transient =>
            \/ j < Len(retry.met)
            \/ /\ j = StopAfterAttempt
               /\ retry.state = "raised"
               /\ retry.error = Transient

\* C13: a track call that meets psycopg2.OperationalError is attempted again,
\* up to 10 attempts: when an attempt succeeds the assigned (file_id,
\* product_id) is returned, and when all 10 fail the error is re-raised.
C13_TransientErrorIsRetried ==
    TrackEnded =>
        /\ RetriedUntilStop
        /\ (retry.state = "returned" /\ retry.met[Len(retry.met)] = None
              /\ env.RDS_SECRET_ARN)
             => CanUnpack(retry.result, 2)

----------------------------------------------------------------------------
(* C14 *)

\* The call was given an unusable file_path, or its file did not exist.
PermanentFailure ==
    /\ TrackEnded
    /\ env.RDS_SECRET_ARN
    /\ \/ InvalidPath(retry.args[1].file_path)
       \/ retry.met[1] = Some("FileNotFoundError")

\* C14: a track call with a permanent failure raises that error to the caller
\* after exactly one attempt, without retry and without lineage-store access.
C14_PermanentFailureRaisesAtOnce ==
    PermanentFailure =>
        /\ retry.state = "raised"
        /\ retry.error = retry.met[1]
        /\ Len(retry.met) = 1
        /\ ~retry.access

----------------------------------------------------------------------------
(* C15 *)

\* C15: fetch_data is re-attempted on a transient connection error, up to 10
\* attempts, the error being re-raised after the 10th; an attempt that failed
\* dispatches nothing.
C15_FetchDataIsRetried ==
    FetchDataEnded =>
        /\ RetriedUntilStop
        /\ (\A j \in 1..Len(retry.met) : retry.met[j] # None) => retry.sent = <<>>

----------------------------------------------------------------------------
(* C16 *)

\* A run was started on a key whose instrument is not configured.
UnknownInstrumentRun == ~env.instrumentConfigured /\ calls # <<>>

\* C16: a key whose instrument is not in the instrument configuration makes
\* the run fail with a configuration error that reaches handle_event (500)
\* before any network I/O: no download, no calibration, no lineage write and
\* no push happen in that run.
C16_UnknownInstrumentFailsBeforeIO ==
    UnknownInstrumentRun =>
        /\ runlog = <<>>
        /\ store = EmptyStore
        /\ Len(calls) = 1
        /\ RunEnded => (RunRaised /\ exc = Some("KeyError"))
        /\ pc = "done" => Answered(ErrorStatusCode)

C16_Witness ==
    /\ UnknownInstrumentRun
    /\ RunRaised
    /\ Answered(ErrorStatusCode)
    /\ runlog = <<>>

----------------------------------------------------------------------------
(* C18 *)

\* The collaborator call at position i of a run: download, calibration, the
\* lineage write for the upload, then push and lineage write for each
\* produced file in turn.
StepAt(i) ==
    IF i = 1 THEN "get_science_file"
    ELSE IF i = 2 THEN "calibrate"
    ELSE IF i % 2 = 0 THEN "push" ELSE "track"

\* The rank of the produced file the call at position i >= 4 is about.
OutputAt(i) == (i - 2) \div 2

\* The call ended without an exception leaving it.
Completed(e) ==
    IF e.op \in {"get_science_file", "push"} THEN e.outcome = "ok"
    ELSE IF e.op = "calibrate" THEN e.outcome # "Exception"
    ELSE TRUE

\* C18: within one run the steps are strictly sequential: the download
\* completes before calibration, calibration before any lineage write, the
\* lineage write for the upload (which yields the origin identifier) before any
\* push, and for each produced file, in the order calibration returned them,
\* its push completes before its lineage record and before the next file.
C18_StepsInOrder ==
    \A i \in 1..Len(runlog) :
        /\ runlog[i].op = StepAt(i)
        /\ i > 1 => Completed(runlog[i - 1])
        /\ i = 3 => runlog[i].target = Target(Self.instrument_bucket_name, Self.file_key)
        /\ i >= 4 =>
             /\ runlog[3].outcome = "ids"
             /\ OutputAt(i) <= NumOutputs
             /\ runlog[i].target = OutputTarget(OutputAt(i))

C18_Witness ==
    /\ RunReturned
    /\ NumOutputs >= 2
    /\ Len(runlog) = 3 + 2 * NumOutputs

----------------------------------------------------------------------------
(* C17 *)

DryRun == self # None /\ Self.dry_run # None

\* The local path and the destination keys a run without dry_run derives from
\* the same bucket and key.
DerivedAsUsual ==
    /\ file_path # None => file_path = Some(Path("/tmp", parse_file_key(Self.file_key)))
    /\ \A i \in 1..Len(Pushes) : Pushes[i].target = OutputTarget(i)

\* C17: in a dry run, whatever calibration does, no mutating network call is
\* made (no download, no upload, no lineage-store write), and the parsed
\* metadata and the derived destination keys are those of the run without
\* dry_run.
C17_DryRunTouchesNothing ==
    DryRun =>
        /\ \A i \in 1..Len(runlog) : ~runlog[i].access
        /\ store = EmptyStore
        /\ DerivedAsUsual

----------------------------------------------------------------------------
(* C19 *)

\* C19: the environment selects the configuration profile only: whatever the
\* environment, a run is carried out by the same processor implementation
\* and goes through the same steps, and two runs on the same bucket and key
\* differ at most in the name of the destination bucket.
C19_EnvironmentKeepsControlFlow ==
    self # None =>
        /\ Self.module = FileProcessorModule
        /\ \A i \in 1..Len(runlog) : runlog[i].op = StepAt(i)
        /\ \A i \in 1..Len(Pushes) :
             Pushes[i].target.key = create_s3_file_key(calibrated_filenames[1][i])

----------------------------------------------------------------------------
(* C21 *)

Workers == {Active, other}

Started(w) == w.self # None

\* The identifiers the store holds for the upload a worker processes.
OwnOriginalIds(w) ==
    {f.science_file_id :
        f \in FileRows(store, w.self[1].file_key, w.self[1].instrument_bucket_name)}

\* The lineage writes a worker made for produced files.
PendingWrites(w) ==
    SelectSeq(w.runlog, LAMBDA e : e.op = "track" /\ e.status.processing_status = PENDING)

\* Every PENDING record of the worker names the identifier of its own upload.
ChainIsOwn(w) ==
    \A i \in 1..Len(PendingWrites(w)) :
        LET origin == PendingWrites(w)[i].status.origin_file_ids
        IN /\ origin # None
           /\ \A j \in 1..Len(origin[1]) : origin[1][j] \in OwnOriginalIds(w)

\* The SUCCESS and FAILED statuses the store holds for a worker's upload.
OriginalStatuses(w) ==
    SelectSeq(store.statuses,
              LAMBDA row : /\ row.science_file_id \in OwnOriginalIds(w)
                           /\ row.processing_status \in {SUCCESS, FAILED})

\* The worker's lineage write for its upload reached the store.
OriginalWritten(w) ==
    \E i \in 1..Len(w.runlog) :
        /\ w.runlog[i].op = "track"
        /\ w.runlog[i].status.processing_status \in {SUCCESS, FAILED}
        /\ w.runlog[i].outcome = "ids"

WorkerEnded(w) == w.rpc \in {"returned", "raised"}

\* C21 as stated: under any interleaving of runs on different files every
\* PENDING record names the identifier of the original of its own run, and
\* each run writes exactly one SUCCESS or FAILED status for its original.
C21_EveryRunWritesOneOriginalStatus ==
    \A w \in Workers :
        Started(w) =>
            /\ ChainIsOwn(w)
            /\ WorkerEnded(w) => Len(OriginalStatuses(w)) = 1

\* C21 amended: the chains are independent, and a run writes at most one
\* SUCCESS or FAILED status for its original: exactly one when its lineage
\* write for the original reaches the store, none otherwise.
C21_ChainsAreIndependent ==
    \A w \in Workers :
        Started(w) =>
            /\ ChainIsOwn(w)
            /\ Len(OriginalStatuses(w)) = IF OriginalWritten(w) THEN 1 ELSE 0

\* The upload a status row of the store belongs to.
ChainOf(row) ==
    (CHOOSE f \in store.files : f.science_file_id = row.science_file_id).s3_key.name.src

\* Both workers wrote PENDING records and their writes to the store are
\* interleaved.
C21_Witness ==
    /\ Started(Active) /\ Started(other)
    /\ WorkerEnded(Active) /\ WorkerEnded(other)
    /\ Len(PendingWrites(Active)) >= 1 /\ PendingWrites(Active)[1].outcome = "ids"
    /\ Len(PendingWrites(other)) >= 1 /\ PendingWrites(other)[1].outcome = "ids"
    /\ \E a, b, c \in 1..Len(store.statuses) :
         /\ a < b /\ b < c
         /\ ChainOf(store.statuses[a]) = ChainOf(store.statuses[c])
         /\ ChainOf(store.statuses[b]) # ChainOf(store.statuses[a])

----------------------------------------------------------------------------
(* C22 *)

\* The (key, bucket) pairs of the rows a call selected.
SelectedPairs(sel) == {Target(row[2], row[1]) : row \in sel.selected[1]}

\* The (key, bucket) pairs of the events a call dispatched.
DispatchedPairs(sel) ==
    {Target(sel.sent[i].Records[1].Message.Records[1].s3.bucket.name,
            sel.sent[i].Records[1].Message.Records[1].s3.object.key) :
        i \in 1..Len(sel.sent)}

\* fetch_data leaves the store as it found it and starts no processing run.
FetchDataOnlyReads ==
    /\ \A i \in 1..Len(selections) : ~selections[i].wrote
    /\ calls = <<>>

\* Two calls whose queries ran with no status write between them select the
\* same rows.
SameSelection ==
    \A i, j \in 1..Len(selections) :
        (/\ i < j
         /\ selections[i].selected # None /\ selections[j].selected # None
         /\ selections[i].writes = selections[j].writes)
        => selections[i].selected = selections[j].selected

\* C22: the requeue driver never writes to the store and does not wait for
\* the runs it dispatches, so two invocations with no status write between
\* them select and dispatch the same set of (key, bucket) pairs.
C22_RequeueIsReadOnlyAndRepeats ==
    /\ FetchDataOnlyReads
    /\ SameSelection
    /\ \A i \in 1..Len(selections) :
         selections[i].selected # None =>
            DispatchedPairs(selections[i]) = SelectedPairs(selections[i])

----------------------------------------------------------------------------
(* C23 *)

\* The number of files the calibration of the current run produced for the
\* orchestrator: all the generated files, or in test data mode the first one.
Produced == IF env.USE_INSTRUMENT_TEST_DATA THEN 1 ELSE NumOutputs

\* Calibration succeeded, the upload was recorded, and no push was refused.
CalibratedAndStored ==
    /\ RunEnded
    /\ Calibrated("files") /\ calibrated_filenames # None /\ Produced >= 1
    /\ science_file_id # None
    /\ \A i \in 1..Len(Pushes) : Pushes[i].outcome = "ok"

\* C23: on success _calibrate_file returns the base names of the produced
\* files, so the orchestrator makes exactly one push and one PENDING lineage
\* write per produced file, in normal mode and in test data mode, where
\* exactly one produced file is pushed.
C23_OnePushPerProducedFile ==
    CalibratedAndStored =>
        /\ Len(Pushes) = Produced
        /\ Len(TracksWith(PENDING)) = Produced
        /\ \A i \in 1..Len(Pushes) :
             IsScienceFilename(Pushes[i].target.key.name)

----------------------------------------------------------------------------
(* C24 *)

\* The file a status row of the store is about.
FileOf(row) == CHOOSE f \in store.files : f.science_file_id = row.science_file_id

\* An upload is a level-0 file; a derived artifact is of a later level.
IsOriginal(s3_key) == s3_key.name.level = "l0"

\* The lineage writes the current run made for its upload.
OriginalTracks == SelectSeq(runlog, LAMBDA e : e.op = "track" /\ IsOriginal(e.target.key))

\* The status the orchestrator may write for a file.
StatusFits(s3_key, status) ==
    IF IsOriginal(s3_key)
    THEN status.processing_status \in {SUCCESS, FAILED}
    ELSE /\ status.processing_status = PENDING
         /\ status.origin_file_ids # None
         /\ Len(status.origin_file_ids[1]) >= 1

\* C24: in every reachable state of the lineage store a status written for an
\* upload is SUCCESS or FAILED and never PENDING, a status written for a
\* derived artifact is PENDING with a non-empty origin_file_ids, and within
\* one run the status written for the upload is SUCCESS if and only if
\* calibration returned at least one output.
C24_StatusMatchesRole ==
    /\ \A i \in 1..Len(store.statuses) :
         StatusFits(FileOf(store.statuses[i]).s3_key, store.statuses[i])
    /\ \A i \in 1..Len(Tracks) : StatusFits(Tracks[i].target.key, Tracks[i].status)
    /\ Len(OriginalTracks) <= 1
    /\ \A i \in 1..Len(OriginalTracks) :
         OriginalTracks[i].status.processing_status = SUCCESS <=> NumOutputs >= 1
    /\ (RunReturned /\ self # None) => Len(OriginalTracks) = 1

\* The store holds a SUCCESS and a FAILED status of two uploads and a PENDING
\* status of a derived artifact, and the current run has just recorded FAILED
\* for an upload without output.
C24_Witness ==
    /\ \E a, b, c \in 1..Len(store.statuses) :
         /\ store.statuses[a].processing_status = SUCCESS
         /\ store.statuses[b].processing_status = FAILED
         /\ store.statuses[c].processing_status = PENDING
         /\ IsOriginal(FileOf(store.statuses[a]).s3_key)
         /\ IsOriginal(FileOf(store.statuses[b]).s3_key)
         /\ ~IsOriginal(FileOf(store.statuses[c]).s3_key)
    /\ RunReturned
    /\ NumOutputs = 0
    /\ Len(OriginalTracks) = 1 /\ OriginalTracks[1].outcome = "ids"

----------------------------------------------------------------------------
(* C25 *)

\* The rows the store holds for the upload of the current run.
OwnRows == FileRows(store, Self.file_key, Self.instrument_bucket_name)

\* The upload of the current run is in the result of the failed-file query.
SelectedForRequeue ==
    \E row \in FailedRows(store) :
        row[1] = Self.file_key /\ row[2] = Self.instrument_bucket_name

\* The run was aborted by the refusal of its latest push.
PushFailed ==
    /\ RunRaised
    /\ Pushes # <<>>
    /\ Pushes[Len(Pushes)].outcome # "ok"

\* The status the store holds last for the upload of the run is SUCCESS.
KeepsSuccess ==
    LET rows == SelectSeq(store.statuses,
                          LAMBDA row : row.science_file_id = science_file_id[1])
    IN /\ rows # <<>>
       /\ rows[Len(rows)].processing_status = SUCCESS

\* The PENDING row the store holds for the i-th produced file of the run.
PendingRowOf(i) ==
    \E j \in 1..Len(store.statuses) :
        /\ store.statuses[j].processing_status = PENDING
        /\ store.statuses[j].origin_file_ids = Some(<<science_file_id[1]>>)
        /\ FileOf(store.statuses[j]).s3_key = Pushes[i].target.key

\* C25: a run aborted by an exception writes no FAILED status; after an
\* unexpected calibration exception no status at all is recorded for the
\* file; after a refused push of output k the upload keeps its SUCCESS status
\* and outputs 1..k-1 keep their pushes and PENDING records; hence the file of
\* a run that ended in a 500 response is not selected by the requeue driver on
\* account of that run.
C25_AbortedRunWritesNoFailed ==
    /\ RunRaised =>
         /\ TracksWith(FAILED) = <<>>
         /\ ~SelectedForRequeue
    /\ Calibrated("Exception") =>
         /\ RunRaised
         /\ Tracks = <<>>
         /\ OwnRows = {}
    /\ PushFailed =>
         /\ Len(Pushes) = k
         /\ science_file_id # None
         /\ KeepsSuccess
         /\ Len(TracksWith(PENDING)) = k - 1
         /\ \A i \in 1..(k - 1) :
              /\ Pushes[i].outcome = "ok" /\ Pushes[i].access
              /\ TracksWith(PENDING)[i].outcome = "ids" => PendingRowOf(i)
    /\ (Answered(ErrorStatusCode) /\ self # None) => ~SelectedForRequeue

\* The second push of a run was refused after the first produced file was
\* pushed and recorded, and the event was answered with 500.
C25_Witness ==
    /\ PushFailed
    /\ k = 2
    /\ TracksWith(PENDING)[1].outcome = "ids"
    /\ PendingRowOf(1)
    /\ Answered(ErrorStatusCode)

----------------------------------------------------------------------------
(* C26 *)

\* handler returned.
HandlerReturned == pc = "done"

\* C26: handler returns a 200 / 500 response for every event: for a message
\* with n >= 1 records it runs the processor for each of the n records, and
\* for every event, a message with an empty Records list included, the value
\* returned is a response with statusCode 200 or 500.
C26_HandlerAnswersEveryEvent ==
    HandlerReturned =>
        /\ response # None
        /\ response[1].statusCode \in {OkStatusCode, ErrorStatusCode}
        /\ (response[1].statusCode = OkStatusCode /\ Len(records) >= 1) =>
              CalledPairs = PairsOf(records)

\* The part of C26 that does not depend on the number of records: the value
\* returned for a message with at least one record is a 200 / 500 response.
NonEmptyMessageIsAnswered ==
    (HandlerReturned /\ (records # <<>> \/ exc # None)) =>
        /\ response # None
        /\ response[1].statusCode \in {OkStatusCode, ErrorStatusCode}

====
